---- MODULE Spec2Model ----
(***************************************************************************)
(* State-machine model of veros' PETSc streamfunction solver               *)
(* (veros/core/streamfunction/solvers/petsc_.py), as seen by one process   *)
(* of the process grid.                                                    *)
(*                                                                         *)
(* Arrays are functions over 0-based index pairs <<i, j>>; Python's        *)
(* negative indices and slices are resolved by PyIdx / InSlice.            *)
(* Floating-point values are drawn from small dyadic integers (and powers  *)
(* of two as divisors), for which every product, quotient and sum of the   *)
(* code is exact, so integer arithmetic reproduces the float results.      *)
(***************************************************************************)
EXTENDS Integers, Sequences, FiniteSets, TLC

\* ---------------------------------------------------------------- bounds
\* largest global grid extent along one axis (settings.nx, settings.ny)
MaxN == 3
\* largest number of processes along one axis (rs.num_proc[k])
MaxProc == 3
\* input arrays of solve are the patterns Pat(0) .. Pat(MaxPat)
MaxPat == 2

VARIABLES
    phase,        \* "Uninitialized" | "Ready" | "Failed"
    error,        \* exception that escaped __init__, or "none"
    settings,     \* state.settings: nx, ny, enable_cyclic_x, congr_max_iterations
    num_proc,     \* rs.num_proc
    proc_idx,     \* rst.proc_idx
    vs,           \* state.variables: which coefficient fields / land mask are loaded
    da,           \* self._da: the DMDA's arguments, or "none"
    matrix,       \* self._matrix: owned rows, [row -> [col -> value]]
    boundary_fac, \* self._boundary_fac
    rhs_petsc,    \* self._rhs_petsc (local part)
    sol_petsc,    \* self._sol_petsc (local part)
    ksp,          \* self._ksp: configuration and outcome of the last KSP solve
    last          \* the most recent call of solve: arguments, caller's arrays, result

vars == <<phase, error, settings, num_proc, proc_idx, vs, da, matrix,
          boundary_fac, rhs_petsc, sol_petsc, ksp, last>>

\* Python's None
None == <<>>

\* ------------------------------------------------------ Python indexing
\* a (possibly negative) Python index into an axis of length n
PyIdx(k, n) == IF k < 0 THEN n + k ELSE k

\* whether index i is selected by the Python slice a:b on an axis of length n
InSlice(i, a, b, n) == PyIdx(a, n) <= i /\ i < PyIdx(b, n)

\* shape of an array: (extent along x, extent along y)
Shape(a) ==
    <<Cardinality({c[1] : c \in DOMAIN a}), Cardinality({c[2] : c \in DOMAIN a})>>

\* local extents (without the 2-cell padding) of this process' arrays
LocalNx(s, np) == s.nx \div np[1]
LocalNy(s, np) == s.ny \div np[2]

\* ------------------------------------------- state.variables (inputs)
\* The coefficient fields are read-only inputs.  They vary with both
\* indices so that a shifted slice gives a different value; divisors are
\* 1 or 2 and numerators multiples of 16 (hvr) and 8 (hur), so that every
\* chain of divisions of the assembly is exact.
vs_hvr(g, i, j) == 16 * ((i + 2 * j + g + 1) % 3)
vs_hur(g, i, j) == 8 * ((i + j + g) % 3)
vs_dxt(g, i) == 1 + ((i + g) % 2)
vs_dxu(g, i) == 1 + (((i \div 2) + g) % 2)
vs_dyt(g, j) == 1 + ((j + g + 1) % 2)
vs_dyu(g, j) == 1 + (((j \div 2) + g + 1) % 2)
vs_cost(g, j) == 1 + ((j + g) % 2)
vs_cosu(g, j) == 1 + (((j + 1) \div 2 + g) % 2)

\* island numbers: the third axis of vs.boundary_mask
Isles == {1, 2}

\* the land-mask patterns the model loads
LandPatterns == {"open", "cell", "rim", "land"}

\* vs.boundary_mask[i, j, k] on the padded local grid of shape (w, h)
vs_boundary_mask(land, w, h, i, j, k) ==
    CASE land = "open" -> FALSE
      [] land = "cell" -> k = 1 /\ i = w - 3 /\ j = h - 3
      [] land = "rim"  -> \/ k = 1 /\ (i < 2 \/ j < 2 \/ i > w - 3 \/ j > h - 3)
                          \/ k = 2 /\ i = 2 /\ j = 2
      [] OTHER         -> (k = 1) = ((i + j) % 2 = 0)

\* ------------------------------------------------- grid partition (DMDA)
\* ownership_ranges argument of DMDA.create: num_proc[k] blocks of n // num_proc[k]
ownership_ranges(s, np) ==
    <<[p \in 1..np[1] |-> s.nx \div np[1]], [p \in 1..np[2] |-> s.ny \div np[2]]>>

\* boundary_type argument of DMDA.create
boundary_type(s) ==
    IF s.enable_cyclic_x THEN <<"periodic", "ghosted">> ELSE <<"ghosted", "ghosted">>

RECURSIVE SumTo(_, _)
\* sum of the first n block sizes of lx
SumTo(lx, n) == IF n = 0 THEN 0 ELSE SumTo(lx, n - 1) + lx[n]

\* DMDA.getRanges() of the process with 0-based coordinate p along an axis
\* whose block sizes are lx: the half-open interval [first, last)
getRange(lx, p) == <<SumTo(lx, p), SumTo(lx, p + 1)>>

\* the global indices of a half-open range
RangeSet(r) == r[1]..(r[2] - 1)

\* whether DMDA.create can lay the blocks on the grid; when the blocks do not
\* add up to the global size the library may reject the layout or keep it
LayoutFits(s, np) == s.nx % np[1] = 0 /\ s.ny % np[2] = 0

\* --------------------------------------------- _assemble_poisson_matrix
\* exact quotient (all divisions of the assembly are exact on the inputs)
Div(a, b) == a \div b

\* boundary_mask = npx.all(~vs.boundary_mask[2:-2, 2:-2], axis=2), as 0 / 1
interior_mask(v, w, h, a, b) ==
    IF \A k \in Isles : ~vs_boundary_mask(v.land, w, h, 2 + a, 2 + b, k) THEN 1 ELSE 0

\* east_diag[a, b]: hvr[3:-1, 2:-2] / dxu[2:-2] / dxt[3:-1] / cosu[2:-2] ** 2
\* variant of east_diag that reads hvr at the cell itself instead of its east face
east_diag_unshifted(g, a, b) ==
    Div(Div(Div(vs_hvr(g, 2 + a, 2 + b), vs_dxu(g, 2 + a)), vs_dxt(g, 3 + a)),
        vs_cosu(g, 2 + b) * vs_cosu(g, 2 + b))
east_diag(g, a, b) ==
    Div(Div(Div(vs_hvr(g, 3 + a, 2 + b), vs_dxu(g, 2 + a)), vs_dxt(g, 3 + a)),
        vs_cosu(g, 2 + b) * vs_cosu(g, 2 + b))

\* west_diag[a, b]: hvr[2:-2, 2:-2] / dxu[2:-2] / dxt[2:-2] / cosu[2:-2] ** 2
west_diag(g, a, b) ==
    Div(Div(Div(vs_hvr(g, 2 + a, 2 + b), vs_dxu(g, 2 + a)), vs_dxt(g, 2 + a)),
        vs_cosu(g, 2 + b) * vs_cosu(g, 2 + b))

\* north_diag[a, b]: hur[2:-2, 3:-1] / dyu[2:-2] / dyt[3:-1] * cost[3:-1] / cosu[2:-2]
north_diag(g, a, b) ==
    Div(Div(Div(vs_hur(g, 2 + a, 3 + b), vs_dyu(g, 2 + b)), vs_dyt(g, 3 + b))
          * vs_cost(g, 3 + b),
        vs_cosu(g, 2 + b))

\* south_diag[a, b]: hur[2:-2, 2:-2] / dyu[2:-2] / dyt[2:-2] * cost[2:-2] / cosu[2:-2]
south_diag(g, a, b) ==
    Div(Div(Div(vs_hur(g, 2 + a, 2 + b), vs_dyu(g, 2 + b)), vs_dyt(g, 2 + b))
          * vs_cost(g, 2 + b),
        vs_cosu(g, 2 + b))

\* main_diag[a, b] before masking: the four terms, each negated, written out
\* as in the source (it does not reuse the neighbour diagonals)
main_diag(g, a, b) ==
    Div(Div(Div(-vs_hvr(g, 3 + a, 2 + b), vs_dxu(g, 2 + a)), vs_dxt(g, 3 + a)),
        vs_cosu(g, 2 + b) * vs_cosu(g, 2 + b))
    - Div(Div(Div(vs_hvr(g, 2 + a, 2 + b), vs_dxu(g, 2 + a)), vs_dxt(g, 2 + a)),
          vs_cosu(g, 2 + b) * vs_cosu(g, 2 + b))
    - Div(Div(Div(vs_hur(g, 2 + a, 2 + b), vs_dyu(g, 2 + b)), vs_dyt(g, 2 + b))
            * vs_cost(g, 2 + b),
          vs_cosu(g, 2 + b))
    - Div(Div(Div(vs_hur(g, 2 + a, 3 + b), vs_dyu(g, 2 + b)), vs_dyt(g, 3 + b))
            * vs_cost(g, 3 + b),
          vs_cosu(g, 2 + b))

\* main_diag *= boundary_mask; main_diag = where(main_diag == 0.0, 1.0, main_diag)
\* variant of masked_main without the replacement of zeros by 1.0
masked_main_keeps_zero(m, d) == m * d
masked_main(m, d) == IF m * d = 0 THEN 1 ELSE m * d

\* cf: the five masked diagonals on the local grid, in the order of ij_offsets
cf(v, nxl, nyl) ==
    LET w == nxl + 4
        h == nyl + 4
        msk == [c \in (0..(nxl - 1)) \X (0..(nyl - 1)) |->
                   interior_mask(v, w, h, c[1], c[2])]
    IN  << [c \in DOMAIN msk |-> masked_main(msk[c], main_diag(v.geom, c[1], c[2]))],
           [c \in DOMAIN msk |-> msk[c] * east_diag(v.geom, c[1], c[2])],
           [c \in DOMAIN msk |-> msk[c] * west_diag(v.geom, c[1], c[2])],
           [c \in DOMAIN msk |-> msk[c] * north_diag(v.geom, c[1], c[2])],
           [c \in DOMAIN msk |-> msk[c] * south_diag(v.geom, c[1], c[2])] >>

\* ij_offsets = [(0, 0), (1, 0), (-1, 0), (0, 1), (0, -1)]
ij_offsets == << <<0, 0>>, <<1, 0>>, <<-1, 0>>, <<0, 1>>, <<0, -1>> >>

\* the column a stencil index addresses: a periodic x index wraps, an index
\* outside a ghosted axis addresses no matrix entry (None)
StencilCol(s, io, jo) ==
    LET i == IF s.enable_cyclic_x THEN io % s.nx ELSE io
    IN  IF i < 0 \/ i >= s.nx \/ jo < 0 \/ jo >= s.ny THEN None ELSE <<i, jo>>

\* the rows this process sets: range(i0, i1) x range(j0, j1)
OwnedRows(d, pidx) ==
    RangeSet(getRange(d.ownership_ranges[1], pidx[1]))
        \X RangeSet(getRange(d.ownership_ranges[2], pidx[2]))

\* the loop over the owned rows: setValueStencil(row, col, diag[iloc, jloc])
\* for the five offsets in order; a later insertion replaces an earlier one.
\* stencil keeps the five values set per row, entries the matrix entries they
\* leave at the addressed columns (all other entries of the row are zero)
assemble_matrix(s, np, d, pidx, coef) ==
    LET nxl == LocalNx(s, np)
        nyl == LocalNy(s, np)
        val(r, k) == coef[k][<<r[1] % nxl, r[2] % nyl>>]
        col(r, k) == StencilCol(s, r[1] + ij_offsets[k][1], r[2] + ij_offsets[k][2])
    IN  [ stencil |-> [r \in OwnedRows(d, pidx) |-> [k \in 1..5 |-> val(r, k)]],
          entries |-> [r \in OwnedRows(d, pidx) |->
                         [c \in {col(r, k) : k \in 1..5} \ {None} |->
                            LET ks == {k \in 1..5 : col(r, k) = c}
                            IN  val(r, CHOOSE k \in ks : \A k2 \in ks : k2 <= k)]] ]

\* boundary_scale: cf[1][-1, :], cf[2][0, :], cf[3][:, -1], cf[4][:, 0]
boundary_scale(coef, nxl, nyl) ==
    [ east  |-> [b \in 0..(nyl - 1) |-> coef[2][<<PyIdx(-1, nxl), b>>]],
      west  |-> [b \in 0..(nyl - 1) |-> coef[3][<<0, b>>]],
      north |-> [a \in 0..(nxl - 1) |-> coef[4][<<a, PyIdx(-1, nyl)>>]],
      south |-> [a \in 0..(nxl - 1) |-> coef[5][<<a, 0>>]] ]

\* ------------------------------------------------------ array operators
\* npx.where(cond, a, b): a new array
where(cond, a, b) == [c \in DOMAIN a |-> IF cond[c] THEN a[c] ELSE b[c]]

\* update_add(arr, at[i_at, 2:-2], -arr[i_from, 2:-2] * fac): add-at-index along
\* one x row; fac is a vector over the interior y indices
\* variant of update_add_row that adds the product instead of its negation
update_add_row_unsigned(w, h, arr, i_at, i_from, fac) ==
    [c \in DOMAIN arr |->
           IF c[1] = PyIdx(i_at, w) /\ InSlice(c[2], 2, -2, h)
           THEN arr[c] + (arr[<<PyIdx(i_from, w), c[2]>>] * fac[c[2] - 2])
           ELSE arr[c]]
update_add_row(w, h, arr, i_at, i_from, fac) ==
    [c \in DOMAIN arr |->
           IF c[1] = PyIdx(i_at, w) /\ InSlice(c[2], 2, -2, h)
           THEN arr[c] + (-arr[<<PyIdx(i_from, w), c[2]>>] * fac[c[2] - 2])
           ELSE arr[c]]

\* update_add(arr, at[2:-2, j_at], -arr[2:-2, j_from] * fac): the same along
\* one y column; fac is a vector over the interior x indices
update_add_col(w, h, arr, j_at, j_from, fac) ==
    [c \in DOMAIN arr |->
           IF c[2] = PyIdx(j_at, h) /\ InSlice(c[1], 2, -2, w)
           THEN arr[c] + (-arr[<<c[1], PyIdx(j_from, h)>>] * fac[c[1] - 2])
           ELSE arr[c]]

\* arr[2:-2, 2:-2]: the interior, as an array of the local shape
interior(w, h, arr) ==
    [c \in (0..(w - 5)) \X (0..(h - 5)) |-> arr[<<c[1] + 2, c[2] + 2>>]]

\* update(arr, at[2:-2, 2:-2], val): assign-at-slice of the interior
\* variant of update_interior that assigns the slice [1:-1, 1:-1]
update_interior_wide(w, h, arr, val) ==
    [c \in DOMAIN arr |->
           IF InSlice(c[1], 1, -1, w) /\ InSlice(c[2], 1, -1, h)
           THEN val[<<(IF c[1] < 2 THEN 2 ELSE IF c[1] > w - 3 THEN w - 3 ELSE c[1]) - 2,
                      (IF c[2] < 2 THEN 2 ELSE IF c[2] > h - 3 THEN h - 3 ELSE c[2]) - 2>>]
           ELSE arr[c]]
update_interior(w, h, arr, val) ==
    [c \in DOMAIN arr |->
           IF InSlice(c[1], 2, -2, w) /\ InSlice(c[2], 2, -2, h)
           THEN val[<<c[1] - 2, c[2] - 2>>]
           ELSE arr[c]]

\* utilities.enforce_boundaries(arr, enable_cyclic_x): returns the field with
\* the x padding wrapped around when x is periodic; the interior is kept
enforce_boundaries(w, arr, cyclic) ==
    [c \in DOMAIN arr |->
           IF ~cyclic THEN arr[c]
           ELSE IF c[1] < 2 THEN arr[<<c[1] + (w - 4), c[2]>>]
           ELSE IF c[1] > w - 3 THEN arr[<<c[1] - (w - 4), c[2]>>]
           ELSE arr[c]]

\* boundary_mask = npx.all(~vs.boundary_mask, axis=2) on the padded local grid
full_mask(v, w, h) ==
    [c \in (0..(w - 1)) \X (0..(h - 1)) |->
        \A k \in Isles : ~vs_boundary_mask(v.land, w, h, c[1], c[2], k)]

\* --------------------------------------------------------- Krylov engine
RECURSIVE SetSum(_, _)
\* sum of f over the finite set S
SetSum(S, f) ==
    IF S = {} THEN 0
    ELSE LET e == CHOOSE x \in S : TRUE IN f[e] + SetSum(S \ {e}, f)

\* whether x satisfies the equation of owned row r exactly
RowSolved(mat, org, r, b, x) ==
    LET loc(c) == <<c[1] - org[1], c[2] - org[2]>>
        cols == {c \in DOMAIN mat.entries[r] : mat.entries[r][c] # 0}
    IN  SetSum(cols, [c \in cols |-> mat.entries[r][c] * x[loc(c)]]) = b[loc(r)]

\* whether x solves every owned row whose columns this process owns (the
\* other rows also depend on values held by neighbouring processes)
LocallySolved(mat, org, b, x) ==
    \A r \in DOMAIN mat.entries :
        \/ \E c \in DOMAIN mat.entries[r] :
              mat.entries[r][c] # 0 /\ c \notin DOMAIN mat.entries
        \/ RowSolved(mat, org, r, b, x)

\* self._ksp.solve(b, x), getConvergedReason(), getIterationNumber(): the
\* iterate left in x, the convergence code (2 = converged to rtol,
\* -3 = iteration limit reached) and the iteration count.  The engine is
\* deterministic: with no iteration allowed it leaves the initial guess,
\* otherwise it leaves the iterate x = b (exact when the operator is the
\* identity, an unconverged iterate in general).
KSPSolve(k, mat, org, b, guess) ==
    LET x == IF k.max_it = 0 THEN guess ELSE b
        conv == LocallySolved(mat, org, b, x)
    IN  [ x |-> x,
          reason |-> IF conv THEN 2 ELSE -3,
          iterations |-> IF conv THEN (IF x = guess THEN 0 ELSE 1) ELSE k.max_it ]

\* ------------------------------------------------------- _petsc_solver
\* rst.proc_idx[0] == rs.num_proc[0] - 1, and so on: the edges this process owns
\* variant of owns_east that holds on every process
owns_east_any(pidx, np) == pidx[1] <= np[1] - 1
owns_east(pidx, np) == pidx[1] = np[1] - 1
owns_west(pidx, np) == pidx[1] = 0
owns_north(pidx, np) == pidx[2] = np[2] - 1
owns_south(pidx, np) == pidx[2] = 0

\* "add dirichlet BC to rhs": the four conditional update_add calls in order
add_dirichlet_bc(w, h, s, np, pidx, fac, rhs) ==
    LET r1 == IF ~s.enable_cyclic_x /\ owns_east(pidx, np)
              THEN update_add_row(w, h, rhs, -3, -2, fac.east) ELSE rhs
        r2 == IF ~s.enable_cyclic_x /\ owns_west(pidx, np)
              THEN update_add_row(w, h, r1, 2, 1, fac.west) ELSE r1
        r3 == IF owns_north(pidx, np)
              THEN update_add_col(w, h, r2, -3, -2, fac.north) ELSE r2
    IN  IF owns_south(pidx, np)
        THEN update_add_col(w, h, r3, 2, 1, fac.south) ELSE r3

\* getVecArray(buf)[...] = arr[2:-2, 2:-2]: the buffer's old content is replaced
\* variant of scatter that adds to the buffer's old content
scatter_accumulates(w, h, buf, arr) ==
    LET new == interior(w, h, arr) IN [c \in DOMAIN buf |-> buf[c] + new[c]]
scatter(w, h, buf, arr) == interior(w, h, arr)

\* if info < 0
\* variant of did_not_converge with the comparison reversed
did_not_converge_positive(info) == info > 0
did_not_converge(info) == info < 0

\* the text passed to logger.warning
warning_text(iterations, info) ==
    << "Streamfunction solver did not converge after ", iterations,
       " iterations (error code: ", info, ")" >>

\* _petsc_solver(state, rhs, x0): heap holds the arrays by reference, rhs and
\* x0 name the arguments; update_add writes into the array it is given
petsc_solver(w, h, s, np, pidx, fac, mat, org, k, bufs, heap, rhs, x0) ==
    LET h1 == [heap EXCEPT ![rhs] = add_dirichlet_bc(w, h, s, np, pidx, fac, heap[rhs])]
        b == scatter(w, h, bufs.rhs_petsc, h1[rhs])
        g == scatter(w, h, bufs.sol_petsc, h1[x0])
        out == KSPSolve(k, mat, org, b, g)
    IN  [ heap |-> h1,
          rhs_petsc |-> b,
          sol_petsc |-> out.x,
          info |-> out.reason,
          iterations |-> out.iterations,
          ksp_solves |-> 1,
          warnings |-> IF did_not_converge(out.reason)
                       THEN <<warning_text(out.iterations, out.reason)>>
                       ELSE <<>>,
          linear_solution |-> out.x ]

\* the array the result of npx.where is bound to: a new one
\* variant of where_result that writes the result into its argument
where_result_in_place(arg) == arg
where_result(arg) == "masked"

\* solve(state, rhs, x0, boundary_val): heap holds the caller's arrays under
\* "rhs", "x0" and "bv" (None when boundary_val is not given)
solve(s, np, pidx, v, fac, mat, org, k, bufs, heap) ==
    LET w == LocalNx(s, np) + 4
        h == LocalNy(s, np) + 4
        boundary_val == IF heap.bv = None THEN "x0" ELSE "bv"
        h1 == [heap EXCEPT !.x0_bc = enforce_boundaries(w, heap.x0, s.enable_cyclic_x)]
        rhs == where_result("rhs")
        h2 == [h1 EXCEPT ![rhs] = where(full_mask(v, w, h), h1.rhs, h1[boundary_val])]
        ps == petsc_solver(w, h, s, np, pidx, fac, mat, org, k, bufs, h2, rhs, "x0_bc")
        h3 == [ps.heap EXCEPT ![rhs] = update_interior(w, h, ps.heap[rhs], ps.linear_solution)]
    IN  [ ret |-> h3[rhs],
          heap |-> h3,
          rhs_petsc |-> ps.rhs_petsc,
          sol_petsc |-> ps.sol_petsc,
          info |-> ps.info,
          iterations |-> ps.iterations,
          ksp_solves |-> ps.ksp_solves,
          warnings |-> ps.warnings ]

\* ------------------------------------------------------------- inputs
\* a full-domain input array whose cells all differ when k > 0
Pat(k, m, w, h) == [c \in (0..(w - 1)) \X (0..(h - 1)) |-> k * (m + c[1] + 8 * c[2])]

\* the maximal iteration counts (settings.congr_max_iterations) considered
IterationCaps == {0, 1}

\* the coefficient-field variants considered
GeomVariants == {0}

\* the arguments of solve considered, for a padded local grid of shape (w, h)
\* x0 is given without boundary_val and rhs is one of MaxPat patterns, or x0 is
\* zero and boundary_val is given
SolveArgs(w, h) ==
    { [rhs |-> Pat(k, 1, w, h), x0 |-> Pat(3, 2, w, h), bv |-> None] : k \in 1..MaxPat }
    \cup
    { [rhs |-> Pat(1, 1, w, h), x0 |-> Pat(0, 0, w, h), bv |-> Pat(5, 3, w, h)] }

\* ------------------------------------------------------------- actions
Init ==
    /\ phase = "Uninitialized"
    /\ error = "none"
    /\ settings = None
    /\ num_proc = None
    /\ proc_idx = None
    /\ vs = None
    /\ da = "none"
    /\ matrix = None
    /\ boundary_fac = None
    /\ rhs_petsc = None
    /\ sol_petsc = None
    /\ ksp = None
    /\ last = [called |-> FALSE]

\* the environment a solver is constructed in
Environment(s, np, pidx, v) ==
    /\ settings' = s
    /\ num_proc' = np
    /\ proc_idx' = pidx
    /\ vs' = v
    /\ da' = [ sizes |-> <<s.nx, s.ny>>,
               proc_sizes |-> np,
               boundary_type |-> boundary_type(s),
               ownership_ranges |-> ownership_ranges(s, np) ]

\* __init__ after DMDA.create returned: assemble, set up the Krylov method,
\* create the two global vectors
Assemble(s, np, pidx, v) ==
    \E nxl \in {LocalNx(s, np)}, nyl \in {LocalNy(s, np)} :
    \E coef \in {cf(v, nxl, nyl)} :
        /\ phase' = "Ready"
        /\ error' = "none"
        /\ matrix' = assemble_matrix(s, np, da', pidx, coef)
        /\ boundary_fac' = boundary_scale(coef, nxl, nyl)
        /\ ksp' = [ type |-> "gmres", pc |-> "hypre", atol |-> 0,
                    max_it |-> s.congr_max_iterations,
                    reason |-> 0, iterations |-> 0 ]
        /\ rhs_petsc' = [c \in (0..(nxl - 1)) \X (0..(nyl - 1)) |-> 0]
        /\ sol_petsc' = [c \in (0..(nxl - 1)) \X (0..(nyl - 1)) |-> 0]
        /\ last' = [called |-> FALSE]

\* PETScSolver.__init__(state)
Construct ==
    /\ phase = "Uninitialized"
    /\ \E nx \in 2..MaxN, ny \in 2..MaxN, px \in 1..MaxProc, py \in 1..MaxProc :
       \E ix \in 0..(px - 1), iy \in 0..(py - 1), cyc \in BOOLEAN,
          mit \in IterationCaps, g \in GeomVariants, land \in LandPatterns :
          LET s == [ nx |-> nx, ny |-> ny, enable_cyclic_x |-> cyc,
                     congr_max_iterations |-> mit ]
              np == <<px, py>>
              pidx == <<ix, iy>>
              v == [geom |-> g, land |-> land]
          IN  /\ px <= nx /\ py <= ny
              /\ Environment(s, np, pidx, v)
              /\ \/ /\ LayoutFits(s, np)
                    /\ Assemble(s, np, pidx, v)
                 \/ /\ ~LayoutFits(s, np)
                    /\ Assemble(s, np, pidx, v)
                 \/ /\ ~LayoutFits(s, np)
                    /\ phase' = "Failed"
                    /\ error' = "PETSc.Error"
                    /\ UNCHANGED <<matrix, boundary_fac, ksp, rhs_petsc, sol_petsc, last>>

\* PETScSolver.solve(state, rhs, x0, boundary_val)
Solve ==
    /\ phase = "Ready"
    /\ LET w == LocalNx(settings, num_proc) + 4
           h == LocalNy(settings, num_proc) + 4
           org == << getRange(da.ownership_ranges[1], proc_idx[1])[1],
                     getRange(da.ownership_ranges[2], proc_idx[2])[1] >>
       IN  \E args \in SolveArgs(w, h) :
           \E r \in { solve(settings, num_proc, proc_idx, vs, boundary_fac, matrix,
                            org, ksp, [rhs_petsc |-> rhs_petsc, sol_petsc |-> sol_petsc],
                            [ rhs |-> args.rhs, x0 |-> args.x0, bv |-> args.bv,
                              x0_bc |-> None, masked |-> None ]) } :
              /\ rhs_petsc' = r.rhs_petsc
              /\ sol_petsc' = r.sol_petsc
              /\ ksp' = [ksp EXCEPT !.reason = r.info, !.iterations = r.iterations]
              /\ last' = [ called |-> TRUE,
                           reused |-> last.called /\ rhs_petsc # r.rhs_petsc,
                           rhs |-> args.rhs, x0 |-> args.x0, bv |-> args.bv,
                           caller_rhs |-> r.heap.rhs,
                           caller_x0 |-> r.heap.x0,
                           caller_bv |-> r.heap.bv,
                           ret |-> r.ret,
                           raised |-> "none",
                           warnings |-> r.warnings,
                           ksp_solves |-> r.ksp_solves ]
    /\ UNCHANGED <<phase, error, settings, num_proc, proc_idx, vs, da, matrix,
                   boundary_fac>>

Next == Construct \/ Solve

Spec == Init /\ [][Next]_vars

\* ----------------------------------------------------------- properties
\* shorthands over the current state, used by the properties below
Constructed == phase # "Uninitialized"
Ready == phase = "Ready"
Called == phase = "Ready" /\ last.called
NxLocal == LocalNx(settings, num_proc)
NyLocal == LocalNy(settings, num_proc)
Origin ==
    << getRange(da.ownership_ranges[1], proc_idx[1])[1],
       getRange(da.ownership_ranges[2], proc_idx[2])[1] >>
LocalCells == (0..(NxLocal - 1)) \X (0..(NyLocal - 1))

\* the cells the process with coordinates (p, q) owns under the DMDA's layout
OwnedBy(p, q) ==
    RangeSet(getRange(da.ownership_ranges[1], p))
        \X RangeSet(getRange(da.ownership_ranges[2], q))
ProcGrid == (0..(num_proc[1] - 1)) \X (0..(num_proc[2] - 1))

\* C1: for every (nx, ny, px, py) the constructor is given, the ownership
\* ranges computed at construction cover [0, nx) x [0, ny) exactly: the blocks
\* of all processes are pairwise disjoint and their union is the whole grid.
C1_RangesPartitionGrid ==
    Constructed =>
        /\ UNION {OwnedBy(pq[1], pq[2]) : pq \in ProcGrid}
              = (0..(settings.nx - 1)) \X (0..(settings.ny - 1))
        /\ \A pq \in ProcGrid, rs \in ProcGrid :
              pq # rs => OwnedBy(pq[1], pq[2]) \cap OwnedBy(rs[1], rs[2]) = {}

\* C2: when nx is not divisible by px or ny is not divisible by py,
\* construction fails with a ConfigurationError and produces no solver object.
C2_IndivisibleGridRejected ==
    (Constructed /\ ~LayoutFits(settings, num_proc)) =>
        /\ phase = "Failed"
        /\ error = "ConfigurationError"

\* the transport terms of the padded cell (i, j), each as one quotient
TransportEast(g, i, j) ==
    vs_hvr(g, i + 1, j) \div (vs_dxu(g, i) * vs_dxt(g, i + 1) * vs_cosu(g, j) * vs_cosu(g, j))
TransportWest(g, i, j) ==
    vs_hvr(g, i, j) \div (vs_dxu(g, i) * vs_dxt(g, i) * vs_cosu(g, j) * vs_cosu(g, j))
TransportNorth(g, i, j) ==
    (vs_hur(g, i, j + 1) * vs_cost(g, j + 1))
        \div (vs_dyu(g, j) * vs_dyt(g, j + 1) * vs_cosu(g, j))
TransportSouth(g, i, j) ==
    (vs_hur(g, i, j) * vs_cost(g, j)) \div (vs_dyu(g, j) * vs_dyt(g, j) * vs_cosu(g, j))

\* whether the padded cell (i, j) is water in every island's mask (1) or not (0)
LandMask(i, j) ==
    IF \E k \in Isles :
          vs_boundary_mask(vs.land, NxLocal + 4, NyLocal + 4, i, j, k)
    THEN 0 ELSE 1

\* the padded local cell of an owned global row
PaddedCell(r) == <<r[1] - Origin[1] + 2, r[2] - Origin[2] + 2>>

\* the columns of row r at the five stencil offsets
OffsetCols(r) ==
    { StencilCol(settings, r[1] + ij_offsets[k][1], r[2] + ij_offsets[k][2]) : k \in 1..5 }

\* C10: in every owned row the four neighbour coefficients are the cell's
\* transport terms times its 0/1 land mask; the centre is minus their sum, or
\* 1 where that is zero; hence a water row with a nonzero sum adds up to zero;
\* and the row's nonzero matrix entries are at most 5, all at the offsets
\* (0,0), (1,0), (-1,0), (0,1), (0,-1).
C10_StencilCoefficients ==
    Ready =>
        \A r \in DOMAIN matrix.stencil :
            LET c == PaddedCell(r)
                m == LandMask(c[1], c[2])
                st == matrix.stencil[r]
                nb == st[2] + st[3] + st[4] + st[5]
                nz == {col \in DOMAIN matrix.entries[r] : matrix.entries[r][col] # 0}
            IN  /\ st[2] = m * TransportEast(vs.geom, c[1], c[2])
                /\ st[3] = m * TransportWest(vs.geom, c[1], c[2])
                /\ st[4] = m * TransportNorth(vs.geom, c[1], c[2])
                /\ st[5] = m * TransportSouth(vs.geom, c[1], c[2])
                /\ st[1] = (IF nb = 0 THEN 1 ELSE -nb)
                /\ (m = 1 /\ nb # 0) => st[1] + nb = 0
                /\ nz \subseteq OffsetCols(r)
                /\ Cardinality(nz) <= 5

\* a solver whose process owns a water row with four nonzero neighbour
\* coefficients and a land row
C10_Witness ==
    /\ Ready
    /\ \E r \in DOMAIN matrix.stencil :
          /\ LandMask(PaddedCell(r)[1], PaddedCell(r)[2]) = 1
          /\ \A k \in 2..5 : matrix.stencil[r][k] # 0
          /\ matrix.stencil[r][1] < 0
    /\ \E r \in DOMAIN matrix.stencil :
          LandMask(PaddedCell(r)[1], PaddedCell(r)[2]) = 0

\* shape of the padded local arrays
PadW == NxLocal + 4
PadH == NyLocal + 4
PaddedCells == (0..(PadW - 1)) \X (0..(PadH - 1))
InteriorCells == {c \in PaddedCells : c[1] >= 2 /\ c[1] <= PadW - 3 /\ c[2] >= 2 /\ c[2] <= PadH - 3}
Local(c) == <<c[1] - 2, c[2] - 2>>

\* the boundary values of the last call: boundary_val, or x0 when it is None
BoundaryVal == IF last.bv = None THEN last.x0 ELSE last.bv

\* the right-hand side of the last call after step 2: rhs on water cells,
\* boundary_val on cells that some island's mask covers
MaskedRhs ==
    [c \in PaddedCells |->
        IF LandMask(c[1], c[2]) = 1 THEN last.rhs[c] ELSE BoundaryVal[c]]

\* the edges the claims let this process inject on
InjectsEast == ~settings.enable_cyclic_x /\ proc_idx[1] = num_proc[1] - 1
InjectsWest == ~settings.enable_cyclic_x /\ proc_idx[1] = 0
InjectsNorth == proc_idx[2] = num_proc[2] - 1
InjectsSouth == proc_idx[2] = 0
OnInjectedEdge(c) ==
    \/ InjectsEast /\ c[1] = PadW - 3
    \/ InjectsWest /\ c[1] = 2
    \/ InjectsNorth /\ c[2] = PadH - 3
    \/ InjectsSouth /\ c[2] = 2

\* the sum, over the injected edges the interior cell c lies on, of the
\* boundary coefficient times the value of m at the cell d steps outward of c
\* across that edge (d = 1: the adjacent padding cell, d = -1: one cell inward)
Correction(m, c, d) ==
      (IF InjectsEast /\ c[1] = PadW - 3
       THEN m[<<c[1] + d, c[2]>>] * boundary_fac.east[c[2] - 2] ELSE 0)
    + (IF InjectsWest /\ c[1] = 2
       THEN m[<<c[1] - d, c[2]>>] * boundary_fac.west[c[2] - 2] ELSE 0)
    + (IF InjectsNorth /\ c[2] = PadH - 3
       THEN m[<<c[1], c[2] + d>>] * boundary_fac.north[c[1] - 2] ELSE 0)
    + (IF InjectsSouth /\ c[2] = 2
       THEN m[<<c[1], c[2] - d>>] * boundary_fac.south[c[1] - 2] ELSE 0)

\* C3 (as amended): for every fully land-masked interior cell the matrix row
\* is the identity row and the right-hand side handed to the Krylov solve at
\* that cell is boundary_val exactly, also on an injected domain edge; the
\* returned value there is boundary_val whenever the iterate satisfies the
\* row's equation.
C3_LandRowPinsBoundaryVal ==
    Called =>
        \A r \in DOMAIN matrix.stencil :
            LET c == PaddedCell(r)
            IN  LandMask(c[1], c[2]) = 0 =>
                  /\ matrix.stencil[r] = <<1, 0, 0, 0, 0>>
                  /\ r \in DOMAIN matrix.entries[r]
                  /\ \A col \in DOMAIN matrix.entries[r] :
                        matrix.entries[r][col] = (IF col = r THEN 1 ELSE 0)
                  /\ rhs_petsc[Local(c)] = BoundaryVal[c]
                  /\ sol_petsc[Local(c)] = rhs_petsc[Local(c)]
                        => last.ret[c] = BoundaryVal[c]

\* C3 (as claimed): for every fully land-masked interior cell the row is the
\* identity row and the value solve returns there is boundary_val.
C3_AsClaimed ==
    Called =>
        \A r \in DOMAIN matrix.stencil :
            LET c == PaddedCell(r)
            IN  LandMask(c[1], c[2]) = 0 =>
                  /\ matrix.stencil[r] = <<1, 0, 0, 0, 0>>
                  /\ last.ret[c] = BoundaryVal[c]

\* a solve with boundary_val given, on a process that injects on the east
\* edge, where a land cell of that edge received a nonzero padding value and
\* came back as boundary_val
C3_Witness ==
    /\ Called /\ last.bv # None /\ InjectsEast
    /\ \E m \in {MaskedRhs} : \E c \in InteriorCells :
          /\ c[1] = PadW - 3
          /\ LandMask(c[1], c[2]) = 0
          /\ m[<<c[1] + 1, c[2]>>] # 0
          /\ last.ret[c] = last.bv[c]
          /\ last.ret[c] # last.x0[c]

\* C4 (as amended): every interior cell on an injected edge is reduced by the
\* boundary coefficient times the masked rhs value of the adjacent padding
\* cell, one cell outward of the edge (summed over the injected edges the cell
\* lies on).
C4_EdgeReducedByOutwardNeighbour ==
    Called =>
        \A m \in {MaskedRhs} : \A c \in InteriorCells :
            OnInjectedEdge(c) =>
                rhs_petsc[Local(c)] = m[c] - Correction(m, c, 1)

\* C4 (as claimed): the reduction uses the rhs value one cell inward.
C4_AsClaimed ==
    Called =>
        \A m \in {MaskedRhs} : \A c \in InteriorCells :
            OnInjectedEdge(c) =>
                rhs_petsc[Local(c)] = m[c] - Correction(m, c, -1)

\* a solve on a process that injects on the east edge only along x, with a
\* nonzero east coefficient and a nonzero padding value at some edge cell
C4_Witness ==
    /\ Called /\ InjectsEast /\ ~InjectsWest
    /\ \E m \in {MaskedRhs} : \E c \in InteriorCells :
          /\ c[1] = PadW - 3
          /\ boundary_fac.east[c[2] - 2] # 0
          /\ m[<<c[1] + 1, c[2]>>] # 0
          /\ rhs_petsc[Local(c)] # m[c]

\* C5: injection acts on an edge only when this process owns it (east and
\* west only when x is not periodic, north and south regardless): interior
\* cells on no such edge reach the Krylov solve unchanged, and no padding cell
\* is changed.
C5_InjectionOnlyOnOwnedEdges ==
    Called =>
        \A m \in {MaskedRhs} :
            /\ \A c \in InteriorCells :
                  ~OnInjectedEdge(c) => rhs_petsc[Local(c)] = m[c]
            /\ \A c \in PaddedCells \ InteriorCells : last.ret[c] = m[c]

\* a solve on a process that owns no domain edge, with nonzero boundary
\* coefficients on all four sides
C5_Witness ==
    /\ Called
    /\ ~InjectsEast /\ ~InjectsWest /\ ~InjectsNorth /\ ~InjectsSouth
    /\ \E b \in DOMAIN boundary_fac.east :
          boundary_fac.east[b] # 0 /\ boundary_fac.west[b] # 0
    /\ \E a \in DOMAIN boundary_fac.north :
          boundary_fac.north[a] # 0 /\ boundary_fac.south[a] # 0
    /\ \E m \in {MaskedRhs} : rhs_petsc = [c \in LocalCells |-> m[<<c[1] + 2, c[2] + 2>>]]

\* C6: a negative convergence code makes solve neither throw nor retry: it
\* logs exactly one warning that carries the iteration count and the code, and
\* returns the last iterate in a full-domain array of the shape of rhs; a
\* non-negative code logs nothing.
C6_NonConvergenceWarnsOnce ==
    Called =>
        /\ last.raised = "none"
        /\ last.ksp_solves = 1
        /\ ksp.reason < 0 =>
              /\ Len(last.warnings) = 1
              /\ last.warnings[1][2] = ksp.iterations
              /\ last.warnings[1][4] = ksp.reason
              /\ DOMAIN last.ret = DOMAIN last.rhs
              /\ \A c \in InteriorCells : last.ret[c] = sol_petsc[Local(c)]
        /\ ksp.reason >= 0 => last.warnings = <<>>

\* a solve with congr_max_iterations = 0 that ended with a negative code
C6_Witness ==
    /\ Called
    /\ settings.congr_max_iterations = 0
    /\ ksp.reason < 0
    /\ Len(last.warnings) = 1

\* C7 (as amended): the returned array has the shape of rhs; its interior
\* [2:-2, 2:-2] is the Krylov iterate, land cells of the interior included; its
\* 2-cell padding is the masked rhs of step 2, untouched by injection and
\* gather.
C7_OnlyInteriorWritten ==
    Called =>
        /\ DOMAIN last.ret = DOMAIN last.rhs
        /\ Shape(last.ret) = <<PadW, PadH>>
        /\ \A m \in {MaskedRhs} : \A c \in PaddedCells :
              last.ret[c] = (IF c \in InteriorCells THEN sol_petsc[Local(c)] ELSE m[c])

\* C7 (as claimed): besides the padding, every masked cell of step 2 (a land
\* cell carrying boundary_val) is left as step 2 set it.
C7_AsClaimed ==
    Called =>
        /\ DOMAIN last.ret = DOMAIN last.rhs
        /\ \A m \in {MaskedRhs} :
              /\ \A c \in PaddedCells \ InteriorCells : last.ret[c] = m[c]
              /\ \A c \in PaddedCells : LandMask(c[1], c[2]) = 0 => last.ret[c] = m[c]

\* a solve with land in the padding and in the interior, boundary_val given,
\* whose iterate differs from the masked rhs somewhere in the interior
C7_Witness ==
    /\ Called /\ last.bv # None
    /\ \E c \in PaddedCells \ InteriorCells :
          LandMask(c[1], c[2]) = 0 /\ last.ret[c] = last.bv[c] /\ last.bv[c] # last.rhs[c]
    /\ \E c \in InteriorCells : LandMask(c[1], c[2]) = 0
    /\ \E m \in {MaskedRhs} : \E c \in InteriorCells : last.ret[c] # m[c]

\* the outcome of the last call's arguments on a solver whose two global
\* vectors are as createGlobalVec left them
OnFreshBuffers ==
    LET zero == [c \in LocalCells |-> 0]
    IN  solve(settings, num_proc, proc_idx, vs, boundary_fac, matrix, Origin, ksp,
              [rhs_petsc |-> zero, sol_petsc |-> zero],
              [ rhs |-> last.rhs, x0 |-> last.x0, bv |-> last.bv,
                x0_bc |-> None, masked |-> None ])

\* C8: whatever solves came before, the result of solve and the two reused
\* buffers are those the same arguments give on a freshly constructed solver:
\* the buffers are overwritten from the current arguments, nothing is carried
\* over from an earlier solve.
C8_NoStaleData ==
    Called =>
        /\ \A fresh \in {OnFreshBuffers} :
              /\ last.ret = fresh.ret
              /\ rhs_petsc = fresh.rhs_petsc
              /\ sol_petsc = fresh.sol_petsc
        /\ \A m \in {MaskedRhs} :
              rhs_petsc = [c \in LocalCells |->
                             m[<<c[1] + 2, c[2] + 2>>] - Correction(m, <<c[1] + 2, c[2] + 2>>, 1)]

\* a solve that found in the rhs buffer the nonzero data of an earlier solve
\* with other arguments
C8_Witness ==
    /\ Called
    /\ last.reused
    /\ \E c \in LocalCells : rhs_petsc[c] # 0

====
